---- MODULE Spec2Model ----
(***************************************************************************)
(* download_sra.py: the input-file interpretation (parse_input_file), the  *)
(* two execution modes (do_download_sra, do_rename_sra) and the dispatch   *)
(* in __main__.                                                            *)
(*                                                                         *)
(* Text is modelled by TLC strings, concatenated with \o as Python's +.    *)
(* The value of a [SRR_code] key is kept as the sequence of its characters *)
(* so that split(",") and int() are computed character by character.       *)
(* The configuration is the content of the ConfigParser after read():      *)
(* option names as ConfigParser reports them, no DEFAULT section.          *)
(***************************************************************************)
EXTENDS Integers, Sequences, FiniteSets, TLC

VARIABLES
    args,        \* parse_arguments(): [rename, dw]
    config,      \* the ConfigParser after config.read(inp_f)
    fs0,         \* the files under fastq/ when the first run starts
    fs,          \* the files under fastq/ now: path -> identity of the file
    pc,          \* "main", "download", "rename", "done", "exited", "crashed"
    dict_runs,   \* what parse_input_file returned (<<>> before it returns)
    idx,         \* position of the running for loop, 1-based
    processed,   \* number of [SRR_code] keys whose loop body completed
    submitted,   \* the sbatch calls issued, in order
    renamed,     \* the os.rename calls that succeeded, in order
    report,      \* what the process printed or logged when it stopped
    run,         \* number of the current invocation of the program
    history      \* how the earlier invocations ended

vars == <<args, config, fs0, fs, pc, dict_runs, idx, processed, submitted,
          renamed, report, run, history>>

-----------------------------------------------------------------------------
(* Bounds of the model *)

MaxValLen == 4
MaxRuns == 2

-----------------------------------------------------------------------------
(* Module constants, lines 17 and 31-34 *)

MAX_DW_SIZE == "60Gb"
PREFIX == "SRR"
PREFETCH == "~/programs/sratoolkit.2.8.1-3-centos_linux64/bin/prefetch"
FQDUMP == "~/programs/sratoolkit.2.8.1-3-centos_linux64/bin/fastq-dump"
SBATCH_MEM == 65536

-----------------------------------------------------------------------------
(* Text *)

Digits == <<"0", "1", "2", "3", "4", "5", "6", "7", "8", "9">>

IsDigit(c) == \E d \in 1..10 : Digits[d] = c

DigitValue(c) == (CHOOSE d \in 1..10 : Digits[d] = c) - 1

\* "".join(chars): the text a sequence of characters spells
RECURSIVE Text(_)
Text(chars) ==
    IF chars = <<>> THEN "" ELSE Head(chars) \o Text(Tail(chars))

\* str(n) of a Python int
RECURSIVE Str(_)
Str(n) ==
    IF n < 0 THEN "-" \o Str(-n)
    ELSE IF n < 10 THEN Digits[n + 1]
    ELSE Str(n \div 10) \o Digits[(n % 10) + 1]

\* values.split(","): the pieces between the commas, empty pieces kept
RECURSIVE Split(_)
Split(chars) ==
    IF \A i \in 1..Len(chars) : chars[i] # ","
    THEN <<chars>>
    ELSE LET i == CHOOSE j \in 1..Len(chars) :
                      /\ chars[j] = ","
                      /\ \A k \in 1..(j - 1) : chars[k] # ","
         IN  <<SubSeq(chars, 1, i - 1)>> \o Split(SubSeq(chars, i + 1, Len(chars)))

\* the digits of a token after its optional sign
Unsigned(tok) ==
    IF Len(tok) >= 1 /\ tok[1] \in {"-", "+"} THEN Tail(tok) ELSE tok

\* int(x) succeeds: x is a non-empty run of decimal digits after an optional sign
IntOk(tok) ==
    /\ Len(Unsigned(tok)) >= 1
    /\ \A i \in 1..Len(Unsigned(tok)) : IsDigit(Unsigned(tok)[i])

\* the value of a run of decimal digits
RECURSIVE Magnitude(_)
Magnitude(digits) ==
    IF Len(digits) = 0 THEN 0
    ELSE 10 * Magnitude(SubSeq(digits, 1, Len(digits) - 1))
         + DigitValue(digits[Len(digits)])

\* int(x) of a token int() accepts
IntOf(tok) ==
    IF Len(tok) >= 1 /\ tok[1] = "-"
    THEN 0 - Magnitude(Unsigned(tok))
    ELSE Magnitude(Unsigned(tok))

-----------------------------------------------------------------------------
(* Python dict: the items in insertion order *)

StrVal(s) == [kind |-> "str", str |-> s, items |-> <<>>]
DictVal(d) == [kind |-> "dict", str |-> "", items |-> d]

DictHas(d, k) == \E i \in 1..Len(d) : d[i].key = k

DictGet(d, k) == d[CHOOSE i \in 1..Len(d) : d[i].key = k].value

\* d[k] = v: a known key keeps its place, a new key goes last
DictSet(d, k, v) ==
    IF DictHas(d, k)
    THEN [i \in 1..Len(d) |-> IF d[i].key = k THEN [key |-> k, value |-> v] ELSE d[i]]
    ELSE Append(d, [key |-> k, value |-> v])

\* d after d[e.key] = e.value for each e of entries, in order: the value of
\* a key is the last one assigned, its place the first one it was given
DictSetAll(d, entries) ==
    LET last(k) == CHOOSE j \in 1..Len(entries) :
                       /\ entries[j].key = k
                       /\ \A j2 \in (j + 1)..Len(entries) : entries[j2].key # k
        IsNew(j) == /\ ~DictHas(d, entries[j].key)
                    /\ \A j2 \in 1..(j - 1) : entries[j2].key # entries[j].key
        new == SelectSeq([j \in 1..Len(entries) |-> j], IsNew)
    IN  [i \in 1..Len(d) |->
            IF DictHas(entries, d[i].key)
            THEN [key |-> d[i].key, value |-> entries[last(d[i].key)].value]
            ELSE d[i]]
        \o [n \in 1..Len(new) |->
               [key |-> entries[new[n]].key,
                value |-> entries[last(entries[new[n]].key)].value]]

-----------------------------------------------------------------------------
(* What the process says when it stops *)

Report(kind, key, count, path) ==
    [kind |-> kind, key |-> key, count |-> count, path |-> path]

NoReport == Report("none", "", 0, "")

-----------------------------------------------------------------------------
(* parse_input_file *)

has_option(c, o) == o \in DOMAIN c.Config

\* b_ranges with any value of the option switching the ranges on
b_ranges_any(c) == has_option(c, "ranges")

b_ranges(c) == has_option(c, "ranges") /\ c.Config["ranges"] = "True"

my_prefix(c) == IF has_option(c, "prefix") THEN c.Config["prefix"] ELSE PREFIX

my_prefetch(c) ==
    IF has_option(c, "prefetch_path") THEN c.Config["prefetch_path"] ELSE PREFETCH

my_fqdump(c) ==
    IF has_option(c, "prefetch_path") THEN c.Config["prefetch_path"] ELSE FQDUMP

my_max_dw_size(c) ==
    IF has_option(c, "max_dw_size") THEN c.Config["max_dw_size"] ELSE MAX_DW_SIZE

\* SectionMissing without the test of the number of options
SectionAbsent(c) == ~c.has_SRR_code

SectionMissing(c) == ~c.has_SRR_code \/ Len(c.SRR_code) < 1

\* RangeOf with range(rr.start, rr.end)
RangeOfExclusive(start, end) ==
    [i \in 1..(IF end > start THEN end - start ELSE 0) |-> start + i - 1]

\* range(rr.start, rr.end + 1)
RangeOf(start, end) ==
    [i \in 1..(IF end + 1 > start THEN end + 1 - start ELSE 0) |-> start + i - 1]

\* lines 174-175: the assignments the inner for loop makes, in order
RangeEntries(item, rng, prefix) ==
    [i \in 1..Len(rng) |->
        [key |-> item \o "_" \o Str(i - 1), value |-> StrVal(prefix \o Str(rng[i]))]]

\* the inner for loop: sra_dict after the assignments of RangeEntries
ExpandRange(sra_dict, item, rng, prefix) ==
    DictSetAll(sra_dict, RangeEntries(item, rng, prefix))

ParseResult(outcome, sra_dict, rep, done) ==
    [outcome |-> outcome, sra_dict |-> sra_dict, report |-> rep, processed |-> done]

\* the loop over config.items("SRR_code") when b_ranges, from the k-th item
RECURSIVE RangeLoop(_, _, _, _)
RangeLoop(items, k, prefix, sra_dict) ==
    IF k > Len(items) THEN ParseResult("return", sra_dict, NoReport, k - 1)
    ELSE LET item == items[k].item
             toks == Split(items[k].values)
         IN  IF \E t \in 1..Len(toks) : ~IntOk(toks[t])
             THEN ParseResult("crash", <<>>, Report("ValueError", "", 0, ""), k - 1)
             ELSE LET ranges == [t \in 1..Len(toks) |-> IntOf(toks[t])]
                  IN  IF Len(ranges) # 2
                      THEN ParseResult("exit", <<>>,
                                       Report("malformed_range", item, Len(ranges), ""),
                                       k - 1)
                      ELSE RangeLoop(items, k + 1, prefix,
                                     ExpandRange(sra_dict, item,
                                                 RangeOf(ranges[1], ranges[2]), prefix))

\* the loop over config.items("SRR_code") otherwise
RECURSIVE PlainLoop(_, _, _, _)
PlainLoop(items, k, prefix, sra_dict) ==
    IF k > Len(items) THEN ParseResult("return", sra_dict, NoReport, k - 1)
    ELSE PlainLoop(items, k + 1, prefix,
                   DictSet(sra_dict, items[k].item, StrVal(prefix \o Text(items[k].values))))

my_config(c, sra_dict) ==
    <<[key |-> "prefetch_exe", value |-> StrVal(my_prefetch(c))],
      [key |-> "fqdump_exe", value |-> StrVal(my_fqdump(c))],
      [key |-> "max_dw_size", value |-> StrVal(my_max_dw_size(c))],
      [key |-> "sra_dict", value |-> DictVal(sra_dict)]>>

parse_input_file(c) ==
    IF SectionMissing(c)
    THEN [outcome |-> "exit", my_config |-> <<>>,
          report |-> Report("missing_section", "", 0, ""), processed |-> 0]
    ELSE LET r == IF b_ranges(c)
                  THEN RangeLoop(c.SRR_code, 1, my_prefix(c), <<>>)
                  ELSE PlainLoop(c.SRR_code, 1, my_prefix(c), <<>>)
         IN  [outcome |-> r.outcome,
              my_config |-> IF r.outcome = "return" THEN my_config(c, r.sra_dict) ELSE <<>>,
              report |-> r.report, processed |-> r.processed]

-----------------------------------------------------------------------------
(* sbatch and the command do_download_sra composes *)

\* lines 77-80: cmd for one run_id
download_cmd(prefetch_exe, fqdump_exe, max_dw_size, run_id) ==
    prefetch_exe \o " " \o "-v" \o " " \o run_id \o " " \o "-X " \o max_dw_size \o " && "
    \o fqdump_exe \o " " \o "--outdir fastq --gzip --split-files"
    \o " ~/ncbi/public/sra/" \o run_id \o ".sra && "
    \o "rm -fr  ~/ncbi/public/sra/" \o run_id \o ".sra "

\* sbatch(cmd, J, log, mem): the submission, or the exit on an empty command
sbatch(cmd, J, log, mem) ==
    IF Len(cmd) = 0
    THEN [exits |-> TRUE, J |-> J, log |-> log, mem |-> mem, cmd |-> cmd, line |-> ""]
    ELSE [exits |-> FALSE, J |-> J, log |-> log, mem |-> mem, cmd |-> cmd,
          line |-> "sbatch -J " \o J \o " -o " \o log \o " --mem " \o Str(mem)
                   \o " --wrap=\"" \o cmd \o "\""]

\* download_job with the job named after the item's key
download_job_by_name(to_dw, name, run_id) ==
    sbatch(download_cmd(DictGet(to_dw, "prefetch_exe").str,
                        DictGet(to_dw, "fqdump_exe").str,
                        DictGet(to_dw, "max_dw_size").str, run_id),
           name, run_id \o ".log", SBATCH_MEM)

\* line 81: the call do_download_sra makes for the item (name, run_id)
download_job(to_dw, name, run_id) ==
    sbatch(download_cmd(DictGet(to_dw, "prefetch_exe").str,
                        DictGet(to_dw, "fqdump_exe").str,
                        DictGet(to_dw, "max_dw_size").str, run_id),
           run_id, run_id \o ".log", SBATCH_MEM)

-----------------------------------------------------------------------------
(* The files of do_rename_sra *)

source_file(run_id) == "fastq/" \o run_id \o "_1.fastq.gz"

target_file(name) == "fastq/" \o name \o ".fastq.gz"

NoFiles == [p \in {} |-> p]

exists(files, path) == path \in DOMAIN files

\* os.rename(src, dst) with src present: dst is replaced, src is gone
os_rename(files, src, dst) ==
    IF src = dst THEN files
    ELSE [p \in (DOMAIN files \ {src}) \cup {dst} |->
             IF p = dst THEN files[src] ELSE files[p]]

-----------------------------------------------------------------------------
(* The program *)

Terminated == pc \in {"done", "exited", "crashed"}

\* __main__: the two checks of the mode flags, then parse_input_file
Main ==
    /\ pc = "main"
    /\ IF (~args.rename /\ ~args.dw) \/ (args.rename /\ args.dw)
       THEN /\ pc' = "exited"
            /\ report' = Report("usage", "", 0, "")
            /\ UNCHANGED <<dict_runs, processed>>
       ELSE LET r == parse_input_file(config)
            IN  /\ pc' = CASE r.outcome = "return" ->
                                 (IF args.dw THEN "download" ELSE "rename")
                           [] r.outcome = "exit" -> "exited"
                           [] OTHER -> "crashed"
                /\ dict_runs' = r.my_config
                /\ processed' = r.processed
                /\ report' = r.report
    /\ idx' = 1
    /\ UNCHANGED <<args, config, fs0, fs, submitted, renamed, run, history>>

\* do_download_sra(to_dw=dict_runs): one pass of the for loop, or its end
DoDownloadSra ==
    /\ pc = "download"
    /\ IF DictHas(dict_runs, "sra_dict")
       THEN LET items == DictGet(dict_runs, "sra_dict").items
            IN  IF idx <= Len(items)
                THEN LET job == download_job(dict_runs, items[idx].key,
                                             items[idx].value.str)
                     IN  IF job.exits
                         THEN /\ pc' = "exited"
                              /\ report' = Report("empty_command", "", 0, "")
                              /\ UNCHANGED <<idx, submitted>>
                         ELSE /\ submitted' = Append(submitted, job)
                              /\ idx' = idx + 1
                              /\ UNCHANGED <<pc, report>>
                ELSE /\ pc' = "done"
                     /\ UNCHANGED <<idx, submitted, report>>
       ELSE /\ pc' = "exited"
            /\ report' = Report("no_ids", "", 0, "")
            /\ UNCHANGED <<idx, submitted>>
    /\ UNCHANGED <<args, config, fs0, fs, dict_runs, processed, renamed, run, history>>

\* do_rename_sra(to_dw=dict_runs): one pass of the for loop over to_dw.items(),
\* or its end
DoRenameSra ==
    /\ pc = "rename"
    /\ IF idx <= Len(dict_runs)
       THEN LET name == dict_runs[idx].key
                run_id == dict_runs[idx].value
            IN  IF run_id.kind # "str"
                THEN \* "fastq/" + run_id raises TypeError, which nothing catches
                     /\ pc' = "crashed"
                     /\ report' = Report("TypeError", name, 0, "")
                     /\ UNCHANGED <<idx, fs, renamed>>
                ELSE LET file == source_file(run_id.str)
                         target_name == target_file(name)
                     IN  IF exists(fs, file)
                         THEN /\ fs' = os_rename(fs, file, target_name)
                              /\ renamed' = Append(renamed,
                                     [name |-> name, run_id |-> run_id.str,
                                      file |-> file, target_name |-> target_name])
                              /\ idx' = idx + 1
                              /\ UNCHANGED <<pc, report>>
                         ELSE /\ pc' = "exited"
                              /\ report' = Report("missing_file", name, 0, file)
                              /\ UNCHANGED <<idx, fs, renamed>>
       ELSE /\ pc' = "done"
            /\ UNCHANGED <<idx, fs, renamed, report>>
    /\ UNCHANGED <<args, config, fs0, dict_runs, processed, submitted, run, history>>

-----------------------------------------------------------------------------
(* The inputs *)

OptionValues ==
    [ranges |-> {"True", "true"}, prefix |-> {"s"},
     prefetch_path |-> {"/opt/prefetch"}, fqdump_path |-> {"/opt/fastq-dump"},
     max_dw_size |-> {"9Gb"}]

\* the [Config] sections that set some of the options in names
ConfigSections(names) ==
    UNION {{f \in [S -> UNION {OptionValues[o] : o \in S}] :
               \A o \in S : f[o] \in OptionValues[o]} : S \in SUBSET names}

Keys == {"a", "a_0"}

Alphabet == {"0", "1", ",", "-"}

\* every value of at most MaxValLen characters
AnyValues == UNION {[1..n -> Alphabet] : n \in 0..MaxValLen}

SomeValues == {<<"1">>, <<"0", ",", "1">>, <<"1", ",", "0">>}

KeySeqs ==
    UNION {{ks \in [1..n -> Keys] : \A i, j \in 1..n : i # j => ks[i] # ks[j]}
           : n \in 0..Cardinality(Keys)}

\* the [SRR_code] sections over the keys ks with the values of each place
\* taken from valuesAt[place]
Sections(ks, valuesAt) ==
    {[i \in 1..Len(ks) |-> [item |-> ks[i], values |-> vs[i]]] :
        vs \in {f \in [1..Len(ks) -> UNION {valuesAt[i] : i \in 1..Len(ks)}] :
                   \A i \in 1..Len(ks) : f[i] \in valuesAt[i]}}

\* [SRR_code] sections whose values are all in SomeValues
PlainSections ==
    UNION {Sections(ks, [i \in 1..Len(ks) |-> SomeValues]) : ks \in KeySeqs}

\* [SRR_code] sections with one value in AnyValues, the others in SomeValues
WideSections ==
    UNION {UNION {Sections(ks, [i \in 1..Len(ks) |->
                                   IF i = p THEN AnyValues ELSE SomeValues])
                  : p \in 1..Len(ks)} : ks \in KeySeqs}

Configs(sections, srr) ==
    {[Config |-> s, has_SRR_code |-> TRUE, SRR_code |-> e] :
        s \in sections, e \in srr \cup {<<>>}}
    \cup {[Config |-> s, has_SRR_code |-> FALSE, SRR_code |-> <<>>] : s \in sections}

\* the mapping parse_input_file builds from c (<<>> when it does not return)
Mapping(c) ==
    LET r == parse_input_file(c)
    IN  IF r.outcome = "return" /\ DictHas(r.my_config, "sra_dict")
        THEN DictGet(r.my_config, "sra_dict").items ELSE <<>>

\* the files do_rename_sra may ask for
RenamePaths(c) ==
    LET r == parse_input_file(c)
    IN  {source_file(r.my_config[i].value.str) :
            i \in {j \in 1..Len(r.my_config) : r.my_config[j].value.kind = "str"}}
        \cup {source_file(Mapping(c)[i].value.str) : i \in 1..Len(Mapping(c))}

Filesystems(c) == {[p \in S |-> p] : S \in SUBSET RenamePaths(c)}

ArgsAll == [rename : BOOLEAN, dw : BOOLEAN]

InitWith(argsSet, configSet) ==
    /\ args \in argsSet
    /\ config \in configSet
    /\ fs0 \in (IF args.rename /\ ~args.dw THEN Filesystems(config) ELSE {NoFiles})
    /\ fs = fs0
    /\ pc = "main"
    /\ dict_runs = <<>>
    /\ idx = 1
    /\ processed = 0
    /\ submitted = <<>>
    /\ renamed = <<>>
    /\ report = NoReport
    /\ run = 1
    /\ history = <<>>

\* both modes, the options ranges and prefix
Init == InitWith(ArgsAll, Configs(ConfigSections({"ranges", "prefix"}), PlainSections))

Next == Main \/ DoDownloadSra \/ DoRenameSra

Spec == Init /\ [][Next]_vars

-----------------------------------------------------------------------------
(* parse_input_file alone, over every value of at most MaxValLen characters *)

DwOnly == [rename |-> FALSE, dw |-> TRUE]

RenameOnly == [rename |-> TRUE, dw |-> FALSE]

InitParse ==
    InitWith({DwOnly}, Configs(ConfigSections({"ranges", "prefix"}), WideSections))

SpecParse == InitParse /\ [][Main]_vars

-----------------------------------------------------------------------------
(* Every [Config] option, one [SRR_code] key *)

InitSettings ==
    InitWith(ArgsAll,
             Configs(ConfigSections(DOMAIN OptionValues),
                     Sections(<<"a">>, <<SomeValues>>)))

SpecSettings == InitSettings /\ [][Next]_vars

-----------------------------------------------------------------------------
(* Rename mode run again: the batch jobs of an earlier download run finish  *)
(* in the meantime, and the user starts the program again on the same input *)

\* every download of the mapping is there, as fastq/<run_id>_1.fastq.gz or
\* under the name an earlier run gave it
DownloadsComplete ==
    \A i \in 1..Len(Mapping(config)) :
        \/ exists(fs, source_file(Mapping(config)[i].value.str))
        \/ exists(fs, target_file(Mapping(config)[i].key))

\* a submitted job ends: fastq-dump --outdir fastq --gzip --split-files has
\* written fastq/<run_id>_1.fastq.gz
DownloadCompletes ==
    /\ run <= MaxRuns
    /\ \E i \in 1..Len(Mapping(config)) :
          LET file == source_file(Mapping(config)[i].value.str)
          IN  /\ ~exists(fs, file)
              /\ fs' = [p \in DOMAIN fs \cup {file} |-> IF p = file THEN file ELSE fs[p]]
    /\ UNCHANGED <<args, config, fs0, pc, dict_runs, idx, processed, submitted,
                   renamed, report, run, history>>

\* the program is started again with the same arguments and input file
Rerun ==
    /\ Terminated
    /\ run < MaxRuns
    /\ history' = Append(history, [pc |-> pc, report |-> report, renamed |-> renamed,
                                   complete |-> DownloadsComplete])
    /\ run' = run + 1
    /\ pc' = "main"
    /\ dict_runs' = <<>>
    /\ idx' = 1
    /\ processed' = 0
    /\ submitted' = <<>>
    /\ renamed' = <<>>
    /\ report' = NoReport
    /\ UNCHANGED <<args, config, fs0, fs>>

InitRerun ==
    InitWith({RenameOnly}, Configs(ConfigSections({"ranges"}), PlainSections))

NextRerun == Main \/ DoRenameSra \/ DownloadCompletes \/ Rerun

SpecRerun == InitRerun /\ [][NextRerun]_vars

-----------------------------------------------------------------------------
(* The input as the properties read it *)

RangesOn == "ranges" \in DOMAIN config.Config /\ config.Config["ranges"] = "True"

Prefix == IF "prefix" \in DOMAIN config.Config THEN config.Config["prefix"] ELSE "SRR"

SectionFilled == config.has_SRR_code /\ Len(config.SRR_code) >= 1

OneMode == args \in {DwOnly, RenameOnly}

\* the mapping the run holds once parse_input_file has returned
sra_dict ==
    IF DictHas(dict_runs, "sra_dict") THEN DictGet(dict_runs, "sra_dict").items ELSE <<>>

\* the value of the k-th [SRR_code] key is start,end: two integers
IsPair(k) ==
    LET toks == Split(config.SRR_code[k].values)
    IN  Len(toks) = 2 /\ IntOk(toks[1]) /\ IntOk(toks[2])

StartOf(k) == IntOf(Split(config.SRR_code[k].values)[1])

EndOf(k) == IntOf(Split(config.SRR_code[k].values)[2])

ValidRanges ==
    /\ RangesOn
    /\ SectionFilled
    /\ \A k \in 1..Len(config.SRR_code) : IsPair(k) /\ StartOf(k) <= EndOf(k)

\* number of mapping entries the keys before the k-th give
RECURSIVE EntriesBefore(_)
EntriesBefore(k) ==
    IF k <= 1 THEN 0 ELSE EntriesBefore(k - 1) + (EndOf(k - 1) - StartOf(k - 1) + 1)

-----------------------------------------------------------------------------
(* C1: in range mode with every value a pair start,end, start <= end,      *)
(* parse_input_file returns the mapping that holds, for each key k in      *)
(* order, the entries k_0 .. k_(end-start) with values prefix + str(start  *)
(* + i), and nothing else.                                                 *)
C1_RangeExpansion ==
    (pc # "main" /\ OneMode /\ ValidRanges) =>
        /\ pc \in {"download", "rename"}
        /\ Len(sra_dict) = EntriesBefore(Len(config.SRR_code) + 1)
        /\ \A k \in 1..Len(config.SRR_code) :
              \A i \in 0..(EndOf(k) - StartOf(k)) :
                  sra_dict[EntriesBefore(k) + i + 1]
                      = [key |-> config.SRR_code[k].item \o "_" \o Str(i),
                         value |-> StrVal(Prefix \o Str(StartOf(k) + i))]

C1_Witness ==
    /\ pc = "download"
    /\ ValidRanges
    /\ Len(config.SRR_code) = 2
    /\ \E k \in 1..2 : StartOf(k) < EndOf(k)
    /\ Len(sra_dict) >= 3

(* C9: outside range mode (ranges absent or not exactly "True") with a     *)
(* non-empty SRR_code section, the mapping has one entry per key, in       *)
(* order, keyed by the key, with value prefix + the configured value.      *)
C9_PlainMapping ==
    (pc # "main" /\ OneMode /\ ~RangesOn /\ SectionFilled) =>
        /\ pc \in {"download", "rename"}
        /\ Len(sra_dict) = Len(config.SRR_code)
        /\ \A k \in 1..Len(config.SRR_code) :
              sra_dict[k] = [key |-> config.SRR_code[k].item,
                             value |-> StrVal(Prefix \o Text(config.SRR_code[k].values))]

C9_Witness ==
    /\ pc = "download"
    /\ "ranges" \in DOMAIN config.Config
    /\ config.Config["ranges"] = "true"
    /\ Len(config.SRR_code) = 2
    /\ \E k \in 1..2 : config.SRR_code[k].values = <<"0", ",", "1">>
    /\ Len(sra_dict) = 2

\* the first key whose value is not a pair of integers
FirstMalformed ==
    CHOOSE k \in 1..Len(config.SRR_code) :
        ~IsPair(k) /\ \A j \in 1..(k - 1) : IsPair(j)

(* C5: in range mode, a value that is not two comma-separated integers     *)
(* ends the process at that key with the malformed-range report naming the *)
(* key and the number of values found; no later key is processed and no    *)
(* mapping is returned.                                                    *)
C5_MalformedRangeReported ==
    (/\ pc # "main" /\ OneMode /\ RangesOn /\ SectionFilled
     /\ \E k \in 1..Len(config.SRR_code) : ~IsPair(k)) =>
        /\ pc = "exited"
        /\ report = Report("malformed_range", config.SRR_code[FirstMalformed].item,
                           Len(Split(config.SRR_code[FirstMalformed].values)), "")
        /\ processed = FirstMalformed - 1
        /\ dict_runs = <<>>

(* C8: with section SRR_code absent or empty the process ends inside       *)
(* parse_input_file: no mapping is returned, nothing is submitted and      *)
(* nothing is renamed, in either mode.                                     *)
C8_MissingSectionStops ==
    (OneMode /\ ~SectionFilled) =>
        /\ pc \in {"main", "exited"}
        /\ pc = "exited" => report.kind = "missing_section"
        /\ dict_runs = <<>>
        /\ submitted = <<>>
        /\ renamed = <<>>

C8_Witness ==
    /\ pc = "exited"
    /\ args = RenameOnly
    /\ config.has_SRR_code
    /\ config.SRR_code = <<>>
    /\ report.kind = "missing_section"

(* C3 as amended: in download mode one submission is issued per mapping    *)
(* entry, in insertion order; the job name is the entry's accession and    *)
(* the log-file name is the accession followed by ".log".                  *)
C3_OneJobPerEntry ==
    (args = DwOnly) =>
        /\ pc \notin {"download", "done"} => submitted = <<>>
        /\ pc \in {"download", "done"} =>
              /\ Len(submitted) = idx - 1
              /\ Len(submitted) <= Len(sra_dict)
              /\ pc = "done" => Len(submitted) = Len(sra_dict)
              /\ \A i \in 1..Len(submitted) :
                    /\ submitted[i].J = sra_dict[i].value.str
                    /\ submitted[i].log = sra_dict[i].value.str \o ".log"

C3_Witness ==
    /\ args = DwOnly
    /\ pc = "done"
    /\ Len(sra_dict) >= 2
    /\ Len(submitted) = Len(sra_dict)

(* C3 as stated: the job name and the log-file name are both equal to the  *)
(* entry's accession.                                                      *)
C3_LogNamedAsJob ==
    (args = DwOnly /\ pc \in {"download", "done"}) =>
        /\ Len(submitted) = idx - 1
        /\ pc = "done" => Len(submitted) = Len(sra_dict)
        /\ \A i \in 1..Len(submitted) :
              /\ submitted[i].J = sra_dict[i].value.str
              /\ submitted[i].log = sra_dict[i].value.str

(* C4: download mode with a mapping that has no entries ends the process   *)
(* with the empty-mapping error, submits nothing and never returns         *)
(* normally.                                                               *)
C4_EmptyMappingFails ==
    (args = DwOnly /\ dict_runs # <<>> /\ Len(sra_dict) = 0) =>
        /\ pc # "done"
        /\ Terminated => (pc = "exited" /\ report.kind = "no_ids")
        /\ submitted = <<>>

(* C7: fqdump_exe is Config.fqdump_path when present and the fastq-dump    *)
(* default otherwise, whatever Config.prefetch_path is; prefetch_exe       *)
(* depends on Config.prefetch_path alone.                                  *)
C7_ToolPathsResolved ==
    (dict_runs # <<>>) =>
        /\ DictGet(dict_runs, "fqdump_exe").str
              = (IF "fqdump_path" \in DOMAIN config.Config
                 THEN config.Config["fqdump_path"] ELSE FQDUMP)
        /\ DictGet(dict_runs, "prefetch_exe").str
              = (IF "prefetch_path" \in DOMAIN config.Config
                 THEN config.Config["prefetch_path"] ELSE PREFETCH)

(* C2: rename mode over a mapping whose every fastq/<accession>_1.fastq.gz *)
(* exists renames the pairs of the mapping, and only them; at the end      *)
(* every fastq/<name>.fastq.gz exists and no source file is left under its *)
(* original name.                                                          *)
C2_RenameAll ==
    (/\ args = RenameOnly /\ run = 1 /\ Terminated /\ dict_runs # <<>>
     /\ \A i \in 1..Len(sra_dict) : exists(fs0, source_file(sra_dict[i].value.str))) =>
        /\ pc = "done"
        /\ Len(renamed) = Len(sra_dict)
        /\ \A i \in 1..Len(sra_dict) :
              /\ renamed[i].name = sra_dict[i].key
              /\ renamed[i].run_id = sra_dict[i].value.str
              /\ exists(fs, target_file(sra_dict[i].key))
              /\ ~exists(fs, source_file(sra_dict[i].value.str))

\* the first entry of the mapping whose source file is not there at the start
FirstMissing ==
    CHOOSE p \in 1..Len(sra_dict) :
        /\ ~exists(fs0, source_file(sra_dict[p].value.str))
        /\ \A j \in 1..(p - 1) : exists(fs0, source_file(sra_dict[j].value.str))

(* C6: rename mode with the source file of some entry missing renames      *)
(* every entry before the first missing one, ends there reporting its      *)
(* path, and renames no entry after it.                                    *)
C6_StopsAtFirstMissing ==
    (/\ args = RenameOnly /\ run = 1 /\ Terminated /\ dict_runs # <<>>
     /\ \E p \in 1..Len(sra_dict) : ~exists(fs0, source_file(sra_dict[p].value.str))) =>
        /\ pc = "exited"
        /\ report.kind = "missing_file"
        /\ report.path = source_file(sra_dict[FirstMissing].value.str)
        /\ Len(renamed) = FirstMissing - 1
        /\ \A i \in 1..(FirstMissing - 1) :
              /\ renamed[i].name = sra_dict[i].key
              /\ renamed[i].run_id = sra_dict[i].value.str

(* C10: after a rename run that stopped at a missing source file, once the *)
(* downloads are complete, running rename again over the same mapping ends *)
(* normally with fastq/<name>.fastq.gz there for every entry.              *)
C10_RerunRecovers ==
    (/\ run >= 2 /\ Terminated /\ Len(Mapping(config)) >= 1
     /\ history[run - 1].pc = "exited"
     /\ history[run - 1].report.kind = "missing_file"
     /\ history[run - 1].complete) =>
        /\ pc = "done"
        /\ \A i \in 1..Len(Mapping(config)) :
              exists(fs, target_file(Mapping(config)[i].key))

====
